---- MODULE Spec2Model ----
(***************************************************************************)
(* One attempt of joj.tiger's TigerTask (src/joj/tiger/task.py) together   *)
(* with the retrying HorseClient (src/joj/tiger/horse_apis.py).            *)
(*                                                                         *)
(* The main coroutine TigerTask.submit -> TigerTask.run is followed from   *)
(* one suspension point (await) to the next; the two storage fetches run   *)
(* in executor threads; every asyncio task created for a submission is a   *)
(* handle in self.tasks that completes at some later, arbitrary moment.    *)
(***************************************************************************)
EXTENDS Integers, Sequences, FiniteSets, TLC

\* ---------------------------------------------------------------- constants
NumCases_nine == 10 - 1
NumCases == 10
StopAfterAttempt_four == 3 + 1
StopAfterAttempt == 3
RetryCountdown == 5

\* ------------------------------------------------------------------- bounds
\* The cases numbered below FlakyCases may exit non-zero as well as zero; the
\* later cases exit zero.  The compile and lint commands may always do both.
FlakyCases == 1
\* The values settings.workers is drawn from are 1..MaxWorkers.
MaxWorkers == 3
\* File changes the supervisor's watch() reports before the model stops.
MaxChanges == 3
\* Invocations of the task for one record, the first one included.
MaxAttempts == 2

\* ------------------------------------------------------------------ domains
\* An attribute of the TigerTask object that no statement has assigned yet.
NoAttr == [unassigned |-> TRUE]
\* judged_at before line 169 has run.
NoTime == -1

\* The exception classes run() tells apart (task.py:179-183).
Faults == {"reject", "retryable", "other"}
FaultOrNone == Faults \cup {"none"}

\* Application error codes of a response other than ErrorCode.SUCCESS.
AppErrorCodes == {"ERROR_A", "ERROR_B"}
ErrorCodes == {"SUCCESS"} \cup AppErrorCodes

NoExc == [class |-> "none", phase |-> "none"]
NoReason == [msg |-> "none", code |-> "none"]
Threads == {"cfg", "rec"}

VARIABLES
    pc,               \* position of the coroutine submit() -> run()
    attempt_number,   \* tenacity's attempt counter of the running _retry
    transport_fails,  \* requests of the running _retry that raised
    response,         \* error code of the response _retry returned
    auth,             \* client.configuration.auth_settings installed
    credentials,      \* self.credentials
    tpc,              \* position of each fetch thread
    texc,             \* exception a fetch thread ended with
    trclone,          \* RClone instance get_rclone() gave each thread
    rclone_cache,     \* lru_cache of get_rclone: 0 = empty, else instance
    rclone_builds,    \* times the body of get_rclone ran
    problem_config_fs, problem_config, record_fs,
    judged_at,        \* self.judged_at
    now,              \* logical clock read by datetime.now()
    runner_held,      \* Runner scopes currently open
    compile_result, lint_result,
    res,              \* execute()'s local list res
    tasks,            \* self.tasks: the retained handles
    done,             \* indices of self.tasks whose task has completed
    submit_res,       \* self.submit_res
    status_writes,    \* assignments made to self.submit_res
    raised_exc,       \* class and phase of the exception run() caught
    reject,           \* reason carried by the Reject raised to the broker
    countdown,        \* countdown of the scheduled retry, 0 = none
    returned,         \* value submit() returned
    clean_pc,         \* position of clean(): "idle", "gather", "done"
    fetched_at,       \* clock reading when the second fetch completed
    runners_opened,   \* Runner scopes the attempt has entered so far
    attempt,          \* number of the invocation of the task, from 1
    id,               \* self.id, the uuid4 drawn by __init__
    earlier_ids,      \* self.id of every earlier invocation
    mpc,              \* position of __main__.main()
    system,           \* platform.system()
    workers,          \* settings.workers
    debug,            \* settings.debug
    launch,           \* how the worker was started: "none", "direct",
                      \* "supervised"
    exit_code,        \* argument of exit(), 0 = exit() not called
    spawned,          \* subprocess.Popen calls made by the supervisor
    alive,            \* the supervised subprocess p is running
    printed           \* the change set the supervisor printed last

vars == <<pc, attempt_number, transport_fails, response, auth, credentials,
          tpc, texc, trclone, rclone_cache, rclone_builds, problem_config_fs,
          problem_config, record_fs, judged_at, now, runner_held,
          compile_result, lint_result, res, tasks, done, submit_res,
          status_writes, raised_exc, reject, countdown, returned, clean_pc,
          fetched_at, runners_opened, attempt, id, earlier_ids, mpc, system,
          workers, debug, launch, exit_code, spawned, alive, printed>>

\* Groups of variables an action leaves alone.
retryVars == <<attempt_number, transport_fails, response>>
fetchVars == <<tpc, texc, trclone, rclone_cache, rclone_builds,
               problem_config_fs, problem_config, record_fs>>
phaseVars == <<compile_result, lint_result, res>>
handleVars == <<tasks, done>>
exitVars == <<submit_res, status_writes, raised_exc, reject, countdown>>
\* What one attempt never touches: the invocation count and ids, and the
\* launcher of the worker process.
mainVars == <<mpc, system, workers, debug, launch, exit_code, spawned, alive,
              printed>>
outerVars == <<attempt, id, earlier_ids, mainVars>>
\* Everything an attempt and its fetch threads read or write.
taskVars == <<pc, retryVars, auth, credentials, fetchVars, judged_at, now,
              runner_held, phaseVars, handleVars, exitVars, returned,
              clean_pc, fetched_at, runners_opened, attempt, id,
              earlier_ids>>

Terminal == {"returned", "rejected", "retry", "raised"}

\* uuid4(): an id no earlier invocation has drawn (task.py:61).
NewId_fixed(used) == 1
NewId(used) == Cardinality(used) + 1

Systems == {"Windows", "Linux", "Darwin"}
ChangeKinds == {"added", "modified", "deleted"}

\* The launcher has started the worker directly and plays no further part:
\* an attempt reads nothing of it.
WorkerStarted ==
    /\ mpc = "direct"
    /\ system = "Linux"
    /\ workers = 1
    /\ debug = FALSE
    /\ launch = "direct"
    /\ exit_code = 0
    /\ spawned = 0
    /\ alive = FALSE
    /\ printed = "none"

\* ------------------------------------------------------------ initial state
\* TigerTask.__init__: tasks = [], nothing else assigned.
TaskInit ==
    /\ pc = "login"
    /\ attempt_number = 0
    /\ transport_fails = 0
    /\ response = "none"
    /\ auth = FALSE
    /\ credentials = NoAttr
    /\ tpc = [t \in Threads |-> "idle"]
    /\ texc = [t \in Threads |-> "none"]
    /\ trclone = [t \in Threads |-> 0]
    /\ rclone_cache = 0
    /\ rclone_builds = 0
    /\ problem_config_fs = NoAttr
    /\ problem_config = NoAttr
    /\ record_fs = NoAttr
    /\ judged_at = NoTime
    /\ now = 1
    /\ runner_held = 0
    /\ compile_result = NoAttr
    /\ lint_result = NoAttr
    /\ res = <<>>
    /\ tasks = <<>>
    /\ done = {}
    /\ submit_res = NoAttr
    /\ status_writes = 0
    /\ raised_exc = NoExc
    /\ reject = NoReason
    /\ countdown = 0
    /\ returned = NoAttr
    /\ clean_pc = "idle"
    /\ fetched_at = NoTime
    /\ runners_opened = 0
    /\ attempt = 1
    /\ id = NewId({})
    /\ earlier_ids = {}

Init == TaskInit /\ WorkerStarted

\* ------------------------------------------------- run(): exception clauses
SystemErrorResult == [submit_status |-> "system_error"]

\* Where the except clauses of run() send an exception of class exc that
\* carries the message msg (task.py:179-186).
\*   WorkerRejectError -> raise Reject(e.error_msg)
\*   RetryableError    -> self.task.retry(countdown=5), which raises Retry
\*   Exception         -> self.submit_res = SubmitResult(system_error)
ExceptPc_retryFallsThrough(exc) ==
    IF exc = "reject" THEN "rejected" ELSE "submit"
ExceptPc(exc) ==
    CASE exc = "reject" -> "rejected"
      [] exc = "retryable" -> "retry"
      [] OTHER -> "submit"

ExceptSubmitRes(exc, cur) ==
    IF exc = "other" THEN SystemErrorResult ELSE cur

Except(exc, phase, msg) ==
    /\ pc' = ExceptPc(exc)
    /\ raised_exc' = [class |-> exc, phase |-> phase]
    /\ reject' = IF exc = "reject" THEN msg ELSE reject
    /\ countdown' = IF exc = "retryable" THEN RetryCountdown ELSE countdown
    /\ submit_res' = ExceptSubmitRes(exc, submit_res)
    /\ status_writes' = IF exc = "other" THEN status_writes + 1
                        ELSE status_writes

\* An exception raised by code of a phase that is outside this repository's
\* own raise statements: it carries no message of horse_apis.py.
PhaseMsg(phase) == [msg |-> phase, code |-> "none"]

\* ------------------------------------------------ HorseClient._retry, login
\* What one request of the wrapped call can do: raise (transport failure)
\* or return a response carrying an error code.
Outcomes == {"raise"} \cup ErrorCodes

\* tenacity's default retry condition: retry if the call raised.
ShouldRetry_onErrorCode(o) == o # "SUCCESS"
ShouldRetry(o) == o = "raise"

\* _retry after its n-th request ended with o (horse_apis.py:36-42) and the
\* check of the error code that follows it (horse_apis.py:57-65, 92-99).
RetryOutcome(n, o) ==
    IF ShouldRetry(o)
    THEN IF n >= StopAfterAttempt THEN "exhausted" ELSE "again"
    ELSE IF o # "SUCCESS" THEN "app_error" ELSE "ok"

ExhaustedMsg(api) ==
    [msg |-> IF api = "login" THEN "failed to request to login"
             ELSE "failed to request to claim record",
     code |-> "none"]

AppErrorMsg(api, code) ==
    [msg |-> IF api = "login" THEN "failed to login with error code"
             ELSE "failed to claim record with error code",
     code |-> code]

Creds == [problem_config_repo_name |-> "problem_repo",
          problem_config_commit_id |-> "problem_commit",
          record_repo_name |-> "record_repo",
          record_commit_id |-> "record_commit"]

\* One request made by _retry for api, in the position loop; next is where
\* run() continues when the response is a success.
Request(api, loop, next) ==
    /\ pc = loop
    /\ \E o \in Outcomes :
        LET n == attempt_number + 1
            r == RetryOutcome(n, o)
        IN  /\ attempt_number' = IF r = "ok" THEN 0 ELSE n
            /\ transport_fails' = IF r = "ok" THEN 0
                                  ELSE IF o = "raise" THEN transport_fails + 1
                                  ELSE transport_fails
            /\ response' = IF r = "ok" THEN "none"
                           ELSE IF o = "raise" THEN response ELSE o
            /\ auth' = IF api = "login" /\ r = "ok" THEN TRUE ELSE auth
            /\ credentials' = IF api = "claim" /\ r = "ok" THEN Creds
                              ELSE credentials
            /\ CASE r = "again" ->
                       /\ pc' = loop
                       /\ UNCHANGED exitVars
                 [] r = "exhausted" -> Except("reject", api, ExhaustedMsg(api))
                 [] r = "app_error" -> Except("reject", api, AppErrorMsg(api, o))
                 [] OTHER ->
                       /\ pc' = next
                       /\ UNCHANGED exitVars
    /\ UNCHANGED <<outerVars, fetched_at, runners_opened, fetchVars, judged_at, now, runner_held, phaseVars,
                   handleVars, returned, clean_pc>>

\* Entering login() / claim(): the API object is built and _retry starts
\* with a fresh attempt counter; code outside the retried call may raise.
Enter(phase, loop) ==
    /\ pc = phase
    /\ \E f \in FaultOrNone :
        IF f = "none"
        THEN /\ pc' = loop
             /\ UNCHANGED exitVars
        ELSE Except(f, phase, PhaseMsg(phase))
    /\ attempt_number' = 0
    /\ transport_fails' = 0
    /\ response' = "none"
    /\ UNCHANGED <<outerVars, fetched_at, runners_opened, auth, credentials, fetchVars, judged_at, now, runner_held,
                   phaseVars, handleVars, returned, clean_pc>>

LoginEnter == Enter("login", "login_retry")
LoginRequest_skipClaim == Request("login", "login_retry", "fetch")
LoginRequest == Request("login", "login_retry", "claim")
ClaimEnter == Enter("claim", "claim_retry")
ClaimRequest == Request("claim", "claim_retry", "fetch")

\* ------------------------------------------------------- the two fetches
\* run():168 starts fetch_problem_config() and fetch_record() together; each
\* hands its sync_func to an executor thread.
FetchStart ==
    /\ pc = "fetch"
    /\ pc' = "fetching"
    /\ tpc' = [t \in Threads |-> "lookup"]
    /\ UNCHANGED <<outerVars, fetched_at, runners_opened, retryVars, auth, credentials, texc, trclone, rclone_cache,
                   rclone_builds, problem_config_fs, problem_config,
                   record_fs, judged_at, now, runner_held, phaseVars,
                   handleVars, exitVars, returned, clean_pc>>

\* get_rclone(), first half: the lru_cache lookup.  A hit returns the cached
\* instance, a miss goes on to run the body.
RcloneLookup(t) ==
    /\ tpc[t] = "lookup"
    /\ IF rclone_cache # 0
       THEN /\ trclone' = [trclone EXCEPT ![t] = rclone_cache]
            /\ tpc' = [tpc EXCEPT ![t] = "sync"]
       ELSE /\ tpc' = [tpc EXCEPT ![t] = "build"]
            /\ UNCHANGED trclone
    /\ UNCHANGED <<outerVars, fetched_at, runners_opened, pc, retryVars, auth, credentials, texc, rclone_cache,
                   rclone_builds, problem_config_fs, problem_config,
                   record_fs, judged_at, now, runner_held, phaseVars,
                   handleVars, exitVars, returned, clean_pc>>

\* get_rclone(), second half: the body builds an RClone; lru_cache stores it
\* unless the key was stored meanwhile, and returns the one just built.
RcloneBuild(t) ==
    /\ tpc[t] = "build"
    /\ rclone_builds' = rclone_builds + 1
    /\ trclone' = [trclone EXCEPT ![t] = rclone_builds + 1]
    /\ rclone_cache' = IF rclone_cache = 0 THEN rclone_builds + 1
                       ELSE rclone_cache
    /\ tpc' = [tpc EXCEPT ![t] = "sync"]
    /\ UNCHANGED <<outerVars, fetched_at, runners_opened, pc, retryVars, auth, credentials, texc,
                   problem_config_fs, problem_config, record_fs, judged_at,
                   now, runner_held, phaseVars, handleVars, exitVars,
                   returned, clean_pc>>

\* The work area a fetch creates and fills from its own locator.
WorkArea(t, creds, rc) ==
    [area |-> t,
     repo |-> IF t = "cfg" THEN creds.problem_config_repo_name
              ELSE creds.record_repo_name,
     branch |-> IF t = "cfg" THEN creds.problem_config_commit_id
                ELSE creds.record_commit_id,
     synced |-> rc # 0]

ParsedConfig(fs) == [parsed_from |-> fs.repo, defaults |-> TRUE]

\* The attribute of the TigerTask a fetch assigns its work area to
\* (task.py:92 and task.py:116).
AreaOf_same(t) == "problem_config_fs"
AreaOf(t) == IF t = "cfg" THEN "problem_config_fs" ELSE "record_fs"

\* gather() of run():168 is complete when both fetches have returned.
BothFetched_any(p) == \E t \in Threads : p[t] = "done"
BothFetched(p) == \A t \in Threads : p[t] = "done"

\* The rest of sync_func: the work area is assigned, the snapshot is synced
\* and (problem config only) config.json is parsed; sync or parse may raise.
\* sync_func is then over and its local rclone is gone.
Sync(t) ==
    /\ tpc[t] = "sync"
    /\ \E f \in FaultOrNone :
        LET fs == WorkArea(t, credentials, trclone[t])
        IN  /\ problem_config_fs' = IF AreaOf(t) = "problem_config_fs"
                                    THEN fs ELSE problem_config_fs
            /\ record_fs' = IF AreaOf(t) = "record_fs" THEN fs
                            ELSE record_fs
            /\ problem_config' = IF t = "cfg" /\ f = "none"
                                 THEN ParsedConfig(fs) ELSE problem_config
            /\ texc' = [texc EXCEPT ![t] = f]
            /\ trclone' = [trclone EXCEPT ![t] = 0]
            /\ tpc' = [tpc EXCEPT ![t] = IF f = "none" THEN "done"
                                         ELSE "failed"]
    /\ now' = now + 1
    /\ fetched_at' = IF \A u \in Threads : tpc'[u] = "done" THEN now'
                     ELSE fetched_at
    /\ UNCHANGED <<outerVars, runners_opened, pc, retryVars, auth,
                   credentials, rclone_cache, rclone_builds, judged_at,
                   runner_held, phaseVars, handleVars, exitVars, returned,
                   clean_pc>>

\* gather() returns once both fetches are done; run():169 stamps judged_at.
FetchJoin ==
    /\ pc = "fetching"
    /\ BothFetched(tpc)
    /\ judged_at' = now
    /\ now' = now + 1
    /\ pc' = "compile"
    /\ UNCHANGED <<outerVars, fetched_at, runners_opened, retryVars, auth, credentials, fetchVars, runner_held,
                   phaseVars, handleVars, exitVars, returned, clean_pc>>

\* gather() propagates the exception of a fetch that failed at once; the
\* other fetch is not cancelled and keeps running in its thread.
FetchFail ==
    /\ pc = "fetching"
    /\ \E t \in Threads :
        /\ tpc[t] = "failed"
        /\ Except(texc[t], "fetch", PhaseMsg("fetch"))
    /\ UNCHANGED <<outerVars, fetched_at, runners_opened, retryVars, auth, credentials, fetchVars, judged_at, now,
                   runner_held, phaseVars, handleVars, returned, clean_pc>>

\* -------------------------------------------------- compile, lint, execute
ExitCodes == {0, 1}

\* The CompletedCommand of the n-th command the attempt ran; non-zero exit
\* is data in it, never an exception.
CompletedCommand(n, code) == [run |-> n, returncode |-> code]

\* The exit codes the command of case i can end with.
CaseExitCodes(i) == IF i < FlakyCases THEN ExitCodes ELSE {0}

\* Leaving a `with Runner() as runner:` block, normally or by an exception,
\* releases the Runner.
Release_leak(held) == held
Release(held) == held - 1

\* Where run() goes on once a phase has returned its result: the result is
\* not looked at (run():170-172).
NextPhase_gated(phase, result) ==
    IF result.returncode # 0 THEN "submit"
    ELSE IF phase = "compile" THEN "lint" ELSE "execute"
NextPhase(phase, result) == IF phase = "compile" THEN "lint" ELSE "execute"

\* `with Runner() as runner:` of compile() or lint() is entered.
RunnerEnter(phase, running) ==
    /\ pc = phase
    /\ runner_held' = runner_held + 1
    /\ runners_opened' = runners_opened + 1
    /\ pc' = running
    /\ UNCHANGED <<outerVars, fetched_at, retryVars, auth, credentials, fetchVars, judged_at, now,
                   phaseVars, handleVars, exitVars, returned, clean_pc>>

CompileEnter == RunnerEnter("compile", "compile_run")
LintEnter == RunnerEnter("lint", "lint_run")

\* compile():128-131: the command runs, the with block is left (also when
\* the command raised) and the result is returned to run().
CompileRun ==
    /\ pc = "compile_run"
    /\ runner_held' = Release(runner_held)
    /\ now' = now + 1
    /\ \E f \in FaultOrNone, code \in ExitCodes :
        IF f = "none"
        THEN /\ compile_result' = CompletedCommand(1, code)
             /\ pc' = NextPhase("compile", compile_result')
             /\ UNCHANGED exitVars
        ELSE /\ code = 0
             /\ Except(f, "compile", PhaseMsg("compile"))
             /\ UNCHANGED compile_result
    /\ UNCHANGED <<outerVars, fetched_at, runners_opened, retryVars, auth, credentials, fetchVars, judged_at,
                   lint_result, res, handleVars, returned, clean_pc>>

\* lint():135-138.
LintRun ==
    /\ pc = "lint_run"
    /\ runner_held' = Release(runner_held)
    /\ now' = now + 1
    /\ \E f \in FaultOrNone, code \in ExitCodes :
        IF f = "none"
        THEN /\ lint_result' = CompletedCommand(2, code)
             /\ pc' = NextPhase("lint", lint_result')
             /\ UNCHANGED exitVars
        ELSE /\ code = 0
             /\ Except(f, "lint", PhaseMsg("lint"))
             /\ UNCHANGED lint_result
    /\ UNCHANGED <<outerVars, fetched_at, runners_opened, retryVars, auth, credentials, fetchVars, judged_at,
                   compile_result, res, handleVars, returned, clean_pc>>

\* execute():141-142: res = [] and the Runner scope of all cases is entered.
ExecuteEnter ==
    /\ pc = "execute"
    /\ res' = <<>>
    /\ runner_held' = runner_held + 1
    /\ runners_opened' = runners_opened + 1
    /\ pc' = "execute_loop"
    /\ UNCHANGED <<outerVars, fetched_at, retryVars, auth, credentials, fetchVars, judged_at, now,
                   compile_result, lint_result, handleVars, exitVars,
                   returned, clean_pc>>

ExecuteResult(command_res) ==
    [status |-> "accepted", completed_command |-> command_res]

\* The arguments submit_case is called with for case i (execute():150-155).
SubmitCaseCall_caseZero(i, exec_res) ==
    [kind |-> "submit_case", case_number |-> 0, exec_res |-> exec_res]
SubmitCaseCall(i, exec_res) ==
    [kind |-> "submit_case", case_number |-> i, exec_res |-> exec_res]

\* self.tasks.append(asyncio.create_task(...)): the handle is retained.
Retain_forget(ts, h) == ts
Retain(ts, h) == Append(ts, h)

\* One turn of the loop of execute():143-157 for case i = len(res).
ExecuteCase ==
    /\ pc = "execute_loop"
    /\ Len(res) < NumCases
    /\ now' = now + 1
    /\ \E f \in FaultOrNone, code \in ExitCodes :
        IF f = "none"
        THEN LET i == Len(res)
                 exec_res == ExecuteResult(CompletedCommand(3 + i, code))
             IN  /\ code \in CaseExitCodes(i)
                 /\ res' = Append(res, exec_res)
                 /\ tasks' = Retain(tasks, SubmitCaseCall(i, exec_res))
                 /\ UNCHANGED <<pc, runner_held, exitVars>>
        ELSE /\ code = 0
             /\ runner_held' = Release(runner_held)
             /\ Except(f, "execute", PhaseMsg("execute"))
             /\ UNCHANGED <<res, tasks>>
    /\ UNCHANGED <<outerVars, fetched_at, runners_opened, retryVars, auth, credentials, fetchVars, judged_at,
                   compile_result, lint_result, done, returned, clean_pc>>

AcceptedResult(c, l, e) ==
    [submit_status |-> "accepted", compile_result |-> c, lint_result |-> l,
     execute_results |-> e]

\* The loop is over: the Runner scope is left, execute() returns res and
\* run():173-178 builds the accepted SubmitResult.
ExecuteExit ==
    /\ pc = "execute_loop"
    /\ Len(res) = NumCases
    /\ runner_held' = Release(runner_held)
    /\ submit_res' = AcceptedResult(compile_result, lint_result, res)
    /\ status_writes' = status_writes + 1
    /\ pc' = "submit"
    /\ UNCHANGED <<outerVars, fetched_at, runners_opened, retryVars, auth, credentials, fetchVars, judged_at, now,
                   phaseVars, handleVars, raised_exc, reject, countdown,
                   returned, clean_pc>>

\* ----------------------------------------------------------------- submit
\* The arguments submit_record is called with (submit():192-197).
SubmitRecordCall_now(sr, at) ==
    [kind |-> "submit_record", submit_res |-> sr, judged_at |-> now]
SubmitRecordCall(sr, at) ==
    [kind |-> "submit_record", submit_res |-> sr, judged_at |-> at]

\* submit():190-200 once run() has returned normally.  Evaluating the
\* arguments reads self.submit_res and self.judged_at; reading an attribute
\* that was never assigned raises AttributeError out of submit().
Submit ==
    /\ pc = "submit"
    /\ IF submit_res = NoAttr \/ judged_at = NoTime
       THEN /\ pc' = "raised"
            /\ UNCHANGED <<tasks, returned>>
       ELSE /\ tasks' = Retain(tasks, SubmitRecordCall(submit_res, judged_at))
            /\ returned' = submit_res
            /\ pc' = "returned"
    /\ UNCHANGED <<outerVars, fetched_at, runners_opened, retryVars, auth, credentials, fetchVars, judged_at, now,
                   runner_held, phaseVars, done, exitVars, clean_pc>>

\* A submission task runs to its end: the remote has received the call.
Deliver ==
    /\ \E k \in (1..Len(tasks)) \ done : done' = done \cup {k}
    /\ UNCHANGED <<outerVars, fetched_at, runners_opened, pc, retryVars, auth, credentials, fetchVars, judged_at, now,
                   runner_held, phaseVars, tasks, exitVars, returned,
                   clean_pc>>

\* ------------------------------------------------------------------ clean
\* asyncio.gather(*self.tasks) returns when every handle has completed.
GatherReady_first(ts, d) == ts = <<>> \/ 1 \in d
GatherReady(ts, d) == \A k \in 1..Len(ts) : k \in d

\* clean() is called once submit() has returned.
CleanCall ==
    /\ pc = "returned"
    /\ clean_pc = "idle"
    /\ clean_pc' = "gather"
    /\ UNCHANGED <<outerVars, fetched_at, runners_opened, pc, retryVars, auth, credentials, fetchVars, judged_at, now,
                   runner_held, phaseVars, handleVars, exitVars, returned>>

CleanReturn ==
    /\ clean_pc = "gather"
    /\ GatherReady(tasks, done)
    /\ clean_pc' = "done"
    /\ UNCHANGED <<outerVars, fetched_at, runners_opened, pc, retryVars, auth, credentials, fetchVars, judged_at, now,
                   runner_held, phaseVars, handleVars, exitVars, returned>>

\* ---------------------------------------------------------- specification
Next ==
    \/ LoginEnter
    \/ LoginRequest
    \/ ClaimEnter
    \/ ClaimRequest
    \/ FetchStart
    \/ \E t \in Threads : RcloneLookup(t)
    \/ \E t \in Threads : RcloneBuild(t)
    \/ \E t \in Threads : Sync(t)
    \/ FetchJoin
    \/ FetchFail
    \/ CompileEnter
    \/ CompileRun
    \/ LintEnter
    \/ LintRun
    \/ ExecuteEnter
    \/ ExecuteCase
    \/ ExecuteExit
    \/ Submit
    \/ Deliver
    \/ CleanCall
    \/ CleanReturn

Spec == Init /\ [][Next]_vars

\* ------------------------------------------------------ re-invocation
\* The retry scheduled by run():182 is delivered: the task is invoked again
\* and builds a new TigerTask (__init__, task.py:60-66).  The object starts
\* with a new id and an empty tasks list and none of the other attributes;
\* only the process-wide get_rclone cache outlives the earlier invocation,
\* whose fetch threads have ended by now.  The clock counts from the start
\* of the invocation.
Reinvoke ==
    /\ pc = "retry"
    /\ attempt < MaxAttempts
    /\ \A t \in Threads : tpc[t] \in {"idle", "done", "failed"}
    /\ attempt' = attempt + 1
    /\ earlier_ids' = earlier_ids \cup {id}
    /\ id' = NewId(earlier_ids')
    /\ pc' = "login"
    /\ attempt_number' = 0
    /\ transport_fails' = 0
    /\ response' = "none"
    /\ auth' = FALSE
    /\ credentials' = NoAttr
    /\ tpc' = [t \in Threads |-> "idle"]
    /\ texc' = [t \in Threads |-> "none"]
    /\ trclone' = [t \in Threads |-> 0]
    /\ problem_config_fs' = NoAttr
    /\ problem_config' = NoAttr
    /\ record_fs' = NoAttr
    /\ judged_at' = NoTime
    /\ now' = 1
    /\ runner_held' = 0
    /\ compile_result' = NoAttr
    /\ lint_result' = NoAttr
    /\ res' = <<>>
    /\ tasks' = <<>>
    /\ done' = {}
    /\ submit_res' = NoAttr
    /\ status_writes' = 0
    /\ raised_exc' = NoExc
    /\ reject' = NoReason
    /\ countdown' = 0
    /\ returned' = NoAttr
    /\ clean_pc' = "idle"
    /\ fetched_at' = NoTime
    /\ runners_opened' = 0
    /\ UNCHANGED <<rclone_cache, rclone_builds, mainVars>>

RetryNext == Next \/ Reinvoke

SpecRetry == Init /\ [][RetryNext]_vars

\* ----------------------------------------------------- __main__.main()
\* The reload supervisor is used only in debug mode with a single worker
\* (__main__.py:19).
UseSupervisor_debugOnly(d, w) == d
UseSupervisor(d, w) == ~(~d \/ w # 1)

\* main() is called with some platform and some settings; no attempt runs.
MainInit ==
    /\ TaskInit
    /\ mpc = "check"
    /\ system \in Systems
    /\ workers \in 1..MaxWorkers
    /\ debug \in BOOLEAN
    /\ launch = "none"
    /\ exit_code = 0
    /\ spawned = 0
    /\ alive = FALSE
    /\ printed = "none"

\* __main__.py:15-17: several workers on Windows end the process.
MainCheck ==
    /\ mpc = "check"
    /\ IF system = "Windows" /\ workers # 1
       THEN /\ exit_code' = -1
            /\ mpc' = "exited"
       ELSE /\ mpc' = "dispatch"
            /\ UNCHANGED exit_code
    /\ UNCHANGED <<taskVars, system, workers, debug, launch, spawned, alive,
                   printed>>

\* __main__.py:19-22: the worker is started directly by joj.tiger.app.main()
\* or as a subprocess the supervisor watches.
MainDispatch ==
    /\ mpc = "dispatch"
    /\ IF UseSupervisor(debug, workers)
       THEN /\ launch' = "supervised"
            /\ spawned' = 1
            /\ alive' = TRUE
            /\ mpc' = "watching"
       ELSE /\ launch' = "direct"
            /\ mpc' = "direct"
            /\ UNCHANGED <<spawned, alive>>
    /\ UNCHANGED <<taskVars, system, workers, debug, exit_code, printed>>

\* __main__.py:23-24: watch() yields a set of changes, which is printed.
MainChange ==
    /\ mpc = "watching"
    /\ spawned <= MaxChanges
    /\ \E c \in ChangeKinds : printed' = c
    /\ mpc' = "terminate"
    /\ UNCHANGED <<taskVars, system, workers, debug, launch, exit_code,
                   spawned, alive>>

\* __main__.py:25-26: p.terminate(); p.poll().
MainTerminate ==
    /\ mpc = "terminate"
    /\ alive' = FALSE
    /\ mpc' = "respawn"
    /\ UNCHANGED <<taskVars, system, workers, debug, launch, exit_code,
                   spawned, printed>>

\* __main__.py:27: a new subprocess replaces the terminated one.
MainRespawn ==
    /\ mpc = "respawn"
    /\ spawned' = spawned + 1
    /\ alive' = TRUE
    /\ mpc' = "watching"
    /\ UNCHANGED <<taskVars, system, workers, debug, launch, exit_code,
                   printed>>

MainNext ==
    \/ MainCheck
    \/ MainDispatch
    \/ MainChange
    \/ MainTerminate
    \/ MainRespawn

SpecMain == MainInit /\ [][MainNext]_vars

\* ------------------------------------------------------------- vocabulary
\* Positions of the handles of one kind in self.tasks.
Handles(kind) == {k \in 1..Len(tasks) : tasks[k].kind = kind}

\* Positions of the submit_case handles created for case number i.
CaseHandles(i) ==
    {k \in Handles("submit_case") : tasks[k].case_number = i}

Accepted == submit_res # NoAttr /\ submit_res.submit_status = "accepted"
SystemError == submit_res # NoAttr /\ submit_res.submit_status = "system_error"

\* ------------------------------------------------------------------ C1
\* C1: whenever submit() has returned a result, every handle retained in
\* self.tasks, the submit_record handle included, has completed.
C1_SubmitReturnsAfterAllHandles ==
    pc = "returned" => GatherReady(tasks, done)

\* ------------------------------------------------------------------ C2
\* C2: once an unclassified exception has been caught by run() and submit()
\* is over, exactly one submit_record call has been issued and it carries a
\* SubmitResult whose status is system_error, whatever phase raised.
C2_SystemErrorAlwaysSubmitted ==
    (raised_exc.class = "other" /\ pc \in Terminal) =>
        /\ Cardinality(Handles("submit_record")) = 1
        /\ \A k \in Handles("submit_record") :
               tasks[k].submit_res.submit_status = "system_error"

C5_CasesNumberedOnce ==
    /\ \A k \in Handles("submit_case") :
           /\ tasks[k].exec_res.completed_command.run
                  = 3 + tasks[k].case_number
           /\ CaseHandles(tasks[k].case_number) = {k}
    /\ (Accepted /\ pc = "returned") =>
           /\ Len(submit_res.execute_results) = 10
           /\ \A i \in 0..9 :
                  /\ Cardinality(CaseHandles(i)) = 1
                  /\ \A k \in CaseHandles(i) :
                         tasks[k].exec_res = submit_res.execute_results[i + 1]
                  /\ submit_res.execute_results[i + 1].completed_command.run
                         = 3 + i

\* Case 9 has been delivered while case 0 is still in flight.
C5_Witness ==
    /\ Accepted
    /\ pc = "returned"
    /\ CaseHandles(9) \subseteq done
    /\ CaseHandles(9) # {}
    /\ CaseHandles(0) \cap done = {}

\* ------------------------------------------------------------------ C6
\* C6: once login or claim_record has received a response whose error code
\* is not SUCCESS, the request is not repeated (requests made = transport
\* failures before it + 1), run() has ended with Reject carrying that error
\* code, and no submit_case and no submit_record call has been made.
C6_AppRejectionNotRetried ==
    response \in AppErrorCodes =>
        /\ pc = "rejected"
        /\ attempt_number = transport_fails + 1
        /\ raised_exc.class = "reject"
        /\ raised_exc.phase \in {"login", "claim"}
        /\ reject = AppErrorMsg(raised_exc.phase, response)
        /\ tasks = <<>>

\* claim_record answered with an error code on its first request.
C6_Witness ==
    /\ response \in AppErrorCodes
    /\ raised_exc.phase = "claim"
    /\ attempt_number = 1
    /\ pc = "rejected"

\* ------------------------------------------------------------------ C7
\* C7: login is never requested more than 3 times; when all 3 requests
\* failed at transport level run() ends with Reject, and the reason of the
\* Reject differs from the reason of every application-level rejection.
C7_LoginExhaustedAfterThree ==
    /\ raised_exc.phase \in {"none", "login"} => attempt_number <= 3
    /\ pc = "login_retry" => attempt_number < 3
    /\ (raised_exc.phase = "login" /\ transport_fails = attempt_number
            /\ attempt_number > 0) =>
           /\ attempt_number = 3
           /\ pc = "rejected"
           /\ reject = ExhaustedMsg("login")
           /\ tasks = <<>>
    /\ reject = ExhaustedMsg("login") =>
           /\ transport_fails = 3
           /\ response = "none"
           /\ \A api \in {"login", "claim"}, c \in AppErrorCodes :
                  reject.msg # AppErrorMsg(api, c).msg

C7_Witness ==
    /\ pc = "rejected"
    /\ reject = ExhaustedMsg("login")
    /\ attempt_number = 3
    /\ transport_fails = 3

\* ------------------------------------------------------------------ C8
\* C8: once a WorkerRejectError has been raised, in whatever phase, run()
\* has ended with Reject and the attempt has issued no submission at all.
C8_RejectSendsNothing ==
    raised_exc.class = "reject" => (pc = "rejected" /\ tasks = <<>>)

\* ------------------------------------------------------------------ C9
\* C9: once a RetryableError has been raised, in whatever phase, run() has
\* ended with a retry scheduled with countdown 5 and the attempt has issued
\* no submission at all.
C9_RetrySendsNothing ==
    raised_exc.class = "retryable" =>
        (pc = "retry" /\ countdown = 5 /\ tasks = <<>>)

\* ------------------------------------------------------------------ C10
\* C10: self.submit_res is assigned at most once in an attempt and is
\* assigned when submit() reads it; when submit() has returned it was
\* assigned exactly once, its status is accepted or system_error, and it is
\* the value returned.
C10_StatusSetOnce ==
    /\ status_writes <= 1
    /\ status_writes = 0 <=> submit_res = NoAttr
    /\ pc \in {"submit", "returned"} => submit_res # NoAttr
    /\ pc = "returned" =>
           /\ status_writes = 1
           /\ submit_res.submit_status \in {"accepted", "system_error"}
           /\ returned = submit_res

C10_Witness ==
    pc = "returned" /\ SystemError /\ status_writes = 1

\* How far run() has come: the positions of submit() -> run() in the order
\* the source text visits them; the three ways of leaving early come last.
Position(p) ==
    CASE p = "login" -> 1 [] p = "login_retry" -> 2
      [] p = "claim" -> 3 [] p = "claim_retry" -> 4
      [] p = "fetch" -> 5 [] p = "fetching" -> 6
      [] p = "compile" -> 7 [] p = "compile_run" -> 8
      [] p = "lint" -> 9 [] p = "lint_run" -> 10
      [] p = "execute" -> 11 [] p = "execute_loop" -> 12
      [] p = "submit" -> 13 [] p = "returned" -> 14
      [] OTHER -> 15

\* ------------------------------------------------------------------ C11
\* C11: judged_at, and the judged_at every submit_record call carries, is
\* the clock reading at which the second of the two fetches completed; it is
\* stamped before compile starts and is earlier than the reading at which
\* submit() issues the call (which is also when execute has ended).
C11_JudgedAtIsFetchInstant ==
    /\ judged_at # NoTime => judged_at = fetched_at
    /\ Position(pc) \in 7..12 => judged_at # NoTime
    /\ runners_opened > 0 => judged_at # NoTime
    /\ \A k \in Handles("submit_record") :
           /\ tasks[k].judged_at = fetched_at
           /\ tasks[k].judged_at # NoTime
           /\ tasks[k].judged_at < now

C11_Witness ==
    /\ pc = "returned"
    /\ Accepted
    /\ Handles("submit_record") # {}
    /\ now > fetched_at + 10

\* ------------------------------------------------------------------ C12
\* C12: within one attempt run() never moves back to an earlier position and
\* enters each of login, claim, fetch, compile, lint, execute only from the
\* position just before it; fetch, compile and execute are entered, and the
\* fetch threads and Runners are started, only with credentials assigned by
\* a completed claim; the accepted result is built only after execute; and
\* credentials, once assigned, are never assigned again in the attempt.
C12_PhasesInOrder ==
    /\ [](/\ Position(pc) \in 3..12 => auth
          /\ Position(pc) \in 5..12 => credentials = Creds
          /\ (\E t \in Threads : tpc[t] # "idle") => credentials = Creds
          /\ runners_opened > 0 => credentials = Creds
          /\ Position(pc) \in 9..12 => compile_result # NoAttr
          /\ Position(pc) \in 11..12 => lint_result # NoAttr
          /\ Accepted => (credentials = Creds /\ Len(res) = 10))
    /\ [][attempt' = attempt =>
             /\ Position(pc') >= Position(pc)
             /\ Position(pc') <= 12 => Position(pc') <= Position(pc) + 1
             /\ (Position(pc') = 13 /\ raised_exc' = NoExc) =>
                    Position(pc) \in 12..13
             /\ credentials # NoAttr => credentials' = credentials]_vars

C12_Witness ==
    pc = "returned" /\ Accepted /\ credentials = Creds

\* ------------------------------------------------------------------ C13
\* C13: judged_at is stamped and compile, lint and execute are reached only
\* when both fetches have completed; once a fetch has failed judged_at is
\* never stamped, no Runner is opened and no phase result or submission
\* exists, also when the other fetch goes on and completes.
C13_BothFetchesGate ==
    /\ judged_at # NoTime => \A t \in Threads : tpc[t] = "done"
    /\ Position(pc) \in 7..12 => \A t \in Threads : tpc[t] = "done"
    /\ Accepted => \A t \in Threads : tpc[t] = "done"
    /\ (\E t \in Threads : tpc[t] = "failed") =>
           /\ judged_at = NoTime
           /\ Position(pc) \notin 7..12
           /\ runners_opened = 0
           /\ compile_result = NoAttr
           /\ lint_result = NoAttr
           /\ res = <<>>
           /\ tasks = <<>>

\* The record fetch failed, run() has ended, the other fetch completed.
C13_Witness ==
    /\ tpc["rec"] = "failed"
    /\ tpc["cfg"] = "done"
    /\ pc = "rejected"
    /\ raised_exc.phase = "fetch"

\* ------------------------------------------------------------------ C14
\* C14: the body of get_rclone runs at most once, and every caller of
\* get_rclone holds the instance that is in the cache.
C14_RcloneBuiltOnce ==
    /\ rclone_builds <= 1
    /\ \A t \in Threads : trclone[t] # 0 => trclone[t] = rclone_cache

\* ------------------------------------------------------------------ C15
\* C15: a step of fetch_problem_config leaves record_fs and the credentials
\* as they are, a step of fetch_record leaves problem_config_fs,
\* problem_config and the credentials as they are, a work area changes only
\* by the last step of its own fetch, and when both fetches are done each
\* work area is the one its own fetch made from its own locator.
C15_DisjointWorkAreas ==
    /\ []((\A t \in Threads : tpc[t] = "done") =>
            /\ problem_config_fs =
                   [area |-> "cfg", repo |-> "problem_repo",
                    branch |-> "problem_commit", synced |-> TRUE]
            /\ record_fs =
                   [area |-> "rec", repo |-> "record_repo",
                    branch |-> "record_commit", synced |-> TRUE]
            /\ problem_config =
                   [parsed_from |-> "problem_repo", defaults |-> TRUE])
    /\ [][attempt' = attempt =>
             /\ tpc'["cfg"] # tpc["cfg"] =>
                    (record_fs' = record_fs /\ credentials' = credentials)
             /\ tpc'["rec"] # tpc["rec"] =>
                    /\ problem_config_fs' = problem_config_fs
                    /\ problem_config' = problem_config
                    /\ credentials' = credentials
             /\ record_fs' # record_fs =>
                    (tpc["rec"] = "sync" /\ tpc'["rec"] # "sync")
             /\ (problem_config_fs' # problem_config_fs
                    \/ problem_config' # problem_config) =>
                    (tpc["cfg"] = "sync" /\ tpc'["cfg"] # "sync")]_vars

\* The two fetches overlapped (both looked the connection up before either
\* had built it) and both are done.
C15_Witness ==
    /\ \A t \in Threads : tpc[t] = "done"
    /\ record_fs # NoAttr
    /\ problem_config_fs # NoAttr
    /\ rclone_builds = 2

\* ------------------------------------------------------------------ C17
\* C17: whatever result the compile command reports run() goes on to lint,
\* whatever lint reports it goes on to execute, whatever a case reports the
\* loop goes on, and an accepted SubmitResult records the compile result,
\* the lint result and the results of all 10 cases.
C17_StatusIsData ==
    /\ [](Accepted =>
            /\ compile_result # NoAttr
            /\ lint_result # NoAttr
            /\ submit_res.compile_result = compile_result
            /\ submit_res.lint_result = lint_result
            /\ Len(submit_res.execute_results) = 10)
    /\ [][attempt' = attempt =>
             /\ compile_result' # compile_result => pc' = "lint"
             /\ lint_result' # lint_result => pc' = "execute"
             /\ Len(res') > Len(res) => pc' = "execute_loop"]_vars

\* Compile, lint and case 0 all exited non-zero and the attempt was accepted.
C17_Witness ==
    /\ pc = "returned"
    /\ Accepted
    /\ submit_res.compile_result.returncode = 1
    /\ submit_res.lint_result.returncode = 1
    /\ submit_res.execute_results[1].completed_command.returncode = 1

\* ------------------------------------------------------------------ C18
\* C18: the submit_record handle is the last handle of self.tasks and is
\* created when run() is over: every case the attempt ran has its
\* submit_case handle before it (all 10 cases when the attempt is accepted),
\* and once it exists self.tasks never changes again.
C18_SubmitRecordLast ==
    /\ [](\A k \in Handles("submit_record") :
            /\ k = Len(tasks)
            /\ pc = "returned"
            /\ Len(res) = k - 1
            /\ Handles("submit_case") = 1..(k - 1)
            /\ Accepted => k - 1 = 10)
    /\ [][(Handles("submit_record") # {} /\ attempt' = attempt) =>
             tasks' = tasks]_vars

\* submit_record has been delivered while case 0's submission is in flight.
C18_Witness ==
    /\ pc = "returned"
    /\ Accepted
    /\ Handles("submit_record") \subseteq done
    /\ Handles("submit_record") # {}
    /\ 1 \notin done

\* ------------------------------------------------------------------ C19
\* C19: at most one Runner is held at any time, one is held exactly while
\* compile, lint or execute is inside its with block, none is held once
\* run() has left the block in any way (result, Reject, retry or exception),
\* and all cases run in the third and last Runner scope of the attempt.
C19_RunnerReleased ==
    /\ runner_held \in {0, 1}
    /\ runner_held = 1 <=> pc \in {"compile_run", "lint_run", "execute_loop"}
    /\ Position(pc) >= 13 => runner_held = 0
    /\ runners_opened <= 3
    /\ pc = "execute_loop" => runners_opened = 3
    /\ res # <<>> => runners_opened = 3

\* A case raised WorkerRejectError after two cases had run.
C19_Witness ==
    /\ raised_exc = [class |-> "reject", phase |-> "execute"]
    /\ Len(res) = 2
    /\ pc = "rejected"
    /\ runner_held = 0

\* ------------------------------------------------------------------ C16
\* C16: whenever debug is set and main() has got past its checks, the worker
\* runs under the reload supervisor, whatever the value of workers.
C16_DebugAlwaysSupervised ==
    (debug /\ mpc \notin {"check", "dispatch"}) => launch = "supervised"

\* C16 as amended: the worker runs under the reload supervisor exactly when
\* debug is set and workers is 1; with debug set and workers other than 1 it
\* is started directly, except on Windows, where main() exits with -1
\* without starting it.
C16_DebugSupervisedWhenSolo ==
    mpc \notin {"check", "dispatch"} =>
        /\ launch = "supervised" <=> (debug /\ workers = 1)
        /\ launch = "none" <=> (system = "Windows" /\ workers # 1)
        /\ launch = "none" <=> exit_code = -1
        /\ launch = "direct" <=>
               /\ ~debug \/ workers # 1
               /\ ~(system = "Windows" /\ workers # 1)
        /\ launch = "supervised" => spawned >= 1
        /\ launch # "supervised" => spawned = 0

\* The supervisor has restarted the worker once after a file change.
C16_Witness ==
    /\ debug
    /\ workers = 1
    /\ launch = "supervised"
    /\ spawned = 2
    /\ alive

\* ------------------------------------------------------------------ C20
\* C20: every invocation has an id that no earlier invocation had, and the
\* step that re-invokes the task after a scheduled retry starts at login
\* with an empty tasks list and with no credentials, login token, work
\* area, problem config, judged_at, phase result or submit result.
C20_RetryRestartsFromInit ==
    /\ [](/\ id \notin earlier_ids
          /\ Cardinality(earlier_ids) = attempt - 1)
    /\ [][attempt' # attempt =>
             /\ attempt' = attempt + 1
             /\ pc = "retry"
             /\ countdown = 5
             /\ id' # id
             /\ id' \notin earlier_ids
             /\ pc' = "login"
             /\ tasks' = <<>>
             /\ done' = {}
             /\ auth' = FALSE
             /\ credentials' = NoAttr
             /\ problem_config_fs' = NoAttr
             /\ problem_config' = NoAttr
             /\ record_fs' = NoAttr
             /\ judged_at' = NoTime
             /\ compile_result' = NoAttr
             /\ lint_result' = NoAttr
             /\ res' = <<>>
             /\ submit_res' = NoAttr
             /\ status_writes' = 0
             /\ runner_held' = 0]_vars

\* The second invocation, made after a retry from execute that had left
\* submissions behind, has been accepted.
C20_Witness ==
    /\ attempt = 2
    /\ id \notin earlier_ids
    /\ pc = "returned"
    /\ Accepted

====
